---- MODULE Spec2Model ----
(***************************************************************************)
(* Model of src/src/tools/crossmint_embedded_wallet.ts: three async        *)
(* wrappers (createCrossmintWallet, getCrossmintWallet,                    *)
(* listCrossmintWallets) around fetch().  Each call is a little process    *)
(* that runs synchronously up to its first await (the fetch), is resumed   *)
(* when the response headers arrive, awaits response.json(), and returns.  *)
(* Several calls may be in flight at once; the remote service and the      *)
(* network are the environment and answer nondeterministically.            *)
(***************************************************************************)
EXTENDS Integers, Sequences, FiniteSets, TLC

(* ---------------------------- bounds ----------------------------------- *)

\* number of calls that may be made (and be in flight together)
NumCalls == 2

Calls == 1..NumCalls

(* --------------------------- state variables --------------------------- *)

VARIABLES
  pc,        \* pc[c]: "idle", "awaitFetch", "awaitJson" or "done"
  op,        \* op[c]: "none", "create", "get" or "list"
  args,      \* args[c]: the arguments of the call
  requests,  \* requests[c]: the requests call c handed to fetch(), in order
  answer,    \* answer[c]: what the network has delivered to c so far
  result     \* result[c]: Pending, Returned(value) or Rejected(error)

vars == <<pc, op, args, requests, answer, result>>

(* ------------------------ JavaScript values ---------------------------- *)

Undefined == [t |-> "undefined"]
Null == [t |-> "null"]
Str(s) == [t |-> "string", v |-> s]
Num(n) == [t |-> "number", v |-> n]
Obj(fields) == [t |-> "object", v |-> fields]
Arr(elems) == [t |-> "array", v |-> elems]

\* ToBoolean, as applied by `!x` and `a || b`
Truthy(x) ==
  CASE x.t = "undefined" -> FALSE
    [] x.t = "null" -> FALSE
    [] x.t = "string" -> x.v # ""
    [] x.t = "number" -> x.v # 0
    [] OTHER -> TRUE

\* ToString, as applied by template literals, header values and new Error(x)
ToStr(x) ==
  CASE x.t = "undefined" -> "undefined"
    [] x.t = "null" -> "null"
    [] x.t = "string" -> x.v
    [] x.t = "number" -> ToString(x.v)
    [] x.t = "array" -> "[array]"
    [] OTHER -> "[object Object]"

\* a || b
OrElse(a, b) == IF Truthy(a) THEN a ELSE b

\* String.prototype.startsWith on two strings
StartsWith(s, prefix) ==
  /\ Len(s) >= Len(prefix)
  /\ SubSeq(s, 1, Len(prefix)) = prefix

\* an Error object: message is always a string, code is a JS value
MkError(name, message, code) ==
  [name |-> name, message |-> message, code |-> code]

\* new Error(x): the argument is converted to a string, no code property
NewError(x) == MkError("Error", ToStr(x), Undefined)

\* outcomes of evaluating an expression: a value or a thrown error
Value(x) == [threw |-> FALSE, val |-> x]
Throw(e) == [threw |-> TRUE, err |-> e]

\* x.name : throws a TypeError on undefined and null, yields undefined when
\* the property is missing
GetProp(x, name) ==
  IF x.t \in {"undefined", "null"}
  THEN Throw(MkError("TypeError",
                     "Cannot read properties of " \o ToStr(x)
                       \o " (reading '" \o name \o "')",
                     Undefined))
  ELSE IF x.t = "object" /\ name \in DOMAIN x.v
       THEN Value(x.v[name])
       ELSE Value(Undefined)

\* x.startsWith(prefix) for an argument typed string; undefined and null
\* have no such method
CallStartsWith(x, prefix) ==
  IF x.t = "string"
  THEN Value(StartsWith(x.v, prefix))
  ELSE Throw(MkError("TypeError",
                     "Cannot read properties of " \o ToStr(x)
                       \o " (reading 'startsWith')",
                     Undefined))

(* --------------------------- the remote -------------------------------- *)

\* HTTP statuses the remote answers with
Statuses == {200, 400, 500}

\* Response.ok
ResponseOk(status) == status >= 200 /\ status <= 299

\* response bodies the remote sends, as text
BodyEmpty == ""
BodyNull == "null"
BodyMessage == "{\"message\":\"bad request\"}"
BodyBlankMessage == "{\"message\":\"\"}"
BodyWallet == "{\"walletId\":\"w1\",\"address\":\"addr1\"}"
BodyWallets == "{\"wallets\":[\"w1\",\"w2\"]}"

BodyTexts ==
  { BodyEmpty, BodyNull, BodyMessage, BodyBlankMessage, BodyWallet,
    BodyWallets }

\* JSON.parse restricted to BodyTexts
JSONParse(text) ==
  CASE text = BodyNull -> Value(Null)
    [] text = BodyMessage -> Value(Obj([message |-> Str("bad request")]))
    [] text = BodyBlankMessage -> Value(Obj([message |-> Str("")]))
    [] text = BodyWallet ->
         Value(Obj([walletId |-> Str("w1"), address |-> Str("addr1")]))
    [] text = BodyWallets ->
         Value(Obj([wallets |-> Arr(<<Str("w1"), Str("w2")>>)]))
    [] OTHER ->
         Throw(MkError("SyntaxError", "Unexpected end of JSON input",
                       Undefined))

\* failures with which fetch() can reject
TransportErrors ==
  { MkError("TypeError", "fetch failed", Undefined),
    MkError("FetchError", "connect ECONNREFUSED", Str("ECONNREFUSED")) }

\* failures with which reading the body in response.json() can reject
BodyReadErrors == { MkError("TypeError", "terminated", Undefined) }

(* ------------------------- the three wrappers -------------------------- *)

WalletsUrl == "https://staging.crossmint.com/api/v1-alpha2/wallets"

\* the value of a finished call
Returned(value) == [kind |-> "returned", value |-> value]
Rejected(error) == [kind |-> "rejected", error |-> error]
Pending == [kind |-> "pending"]

\* variant: a catch block that lets parse failures escape to the caller
CatchErrorRethrow(error, fallback) ==
  IF error.name = "SyntaxError"
  THEN Rejected(error)
  ELSE Returned([status |-> "error",
                 message |-> error.message,
                 code |-> OrElse(error.code, Str(fallback))])

\* variant: a catch block that always reports the fallback code
CatchErrorFallbackOnly(error, fallback) ==
  Returned([status |-> "error",
            message |-> error.message,
            code |-> Str(fallback)])

\* catch (error) { return {status: "error", message, code: code || fallback} }
CatchError(error, fallback) ==
  Returned([status |-> "error",
            message |-> error.message,
            code |-> OrElse(error.code, Str(fallback))])

FallbackCode(o) ==
  CASE o = "create" -> "WALLET_CREATION_ERROR"
    [] o = "get" -> "WALLET_FETCH_ERROR"
    [] o = "list" -> "WALLET_LIST_ERROR"

\* the linkedUser check of createCrossmintWallet
CheckLinkedUser(linkedUser) ==
  LET e == CallStartsWith(linkedUser, "email:")
      i == CallStartsWith(linkedUser, "id:")
  IN  IF e.threw THEN e
      ELSE IF ~e.val /\ ~i.val
           THEN Throw(NewError(Str(
             "linkedUser must start with 'email:' or 'id:' followed by the identifier")))
           ELSE Value(Undefined)

\* variant: an apiKey check that only demands a non-empty key
CheckApiKeyNonEmpty(apiKey) ==
  IF ~Truthy(apiKey)
  THEN Throw(NewError(Str("Invalid Crossmint API key format")))
  ELSE Value(Undefined)

\* the apiKey check of createCrossmintWallet
CheckApiKey(apiKey) ==
  IF ~Truthy(apiKey)
  THEN Throw(NewError(Str("Invalid Crossmint API key format")))
  ELSE LET s == CallStartsWith(apiKey, "sk_")
       IN  IF s.threw THEN s
           ELSE IF ~s.val
                THEN Throw(NewError(Str("Invalid Crossmint API key format")))
                ELSE Value(Undefined)

\* variant: the two checks in the opposite order
ValidateCreateKeyFirst(linkedUser, apiKey) ==
  LET k == CheckApiKey(apiKey)
  IN  IF k.threw THEN k ELSE CheckLinkedUser(linkedUser)

\* both checks, in the order of the code
ValidateCreate(linkedUser, apiKey) ==
  LET u == CheckLinkedUser(linkedUser)
  IN  IF u.threw THEN u ELSE CheckApiKey(apiKey)

\* the request handed to fetch()
CreateRequest(linkedUser, apiKey) ==
  [method |-> "POST", url |-> WalletsUrl, key |-> ToStr(apiKey),
   body |-> [type |-> "solana-mpc-wallet", linkedUser |-> linkedUser]]

GetRequest(walletId, apiKey) ==
  [method |-> "GET", url |-> WalletsUrl \o "/" \o ToStr(walletId),
   key |-> ToStr(apiKey)]

ListRequest(apiKey) ==
  [method |-> "GET", url |-> WalletsUrl, key |-> ToStr(apiKey)]

\* variant: the message of the error body is ignored
ErrorFromBodyStatusOnly(status, parsed) ==
  IF parsed.threw THEN parsed.err
  ELSE LET m == GetProp(parsed.val, "message")
       IN  IF m.threw THEN m.err
           ELSE NewError(Str("HTTP error! status: " \o ToStr(Num(status))))

\* if (!response.ok) { errorData = await response.json(); throw new Error(...) }
ErrorFromBody(status, parsed) ==
  IF parsed.threw THEN parsed.err
  ELSE LET m == GetProp(parsed.val, "message")
       IN  IF m.threw THEN m.err
           ELSE NewError(OrElse(m.val,
                  Str("HTTP error! status: " \o ToStr(Num(status)))))

\* variant: a body without walletId is reported as an error
WalletResultStrict(o, data) ==
  LET w == GetProp(data, "walletId")
      a == GetProp(data, "address")
  IN  IF w.threw THEN CatchError(w.err, FallbackCode(o))
      ELSE IF a.threw THEN CatchError(a.err, FallbackCode(o))
      ELSE IF w.val = Undefined
           THEN CatchError(NewError(Str("Wallet not found")), FallbackCode(o))
      ELSE Returned([status |-> "success", walletId |-> w.val,
                     address |-> a.val])

\* variant: once a call has succeeded, later wallet results are served from
\* a module-level cache that keeps the wallet id only
WalletResultCached(o, data) ==
  LET w == GetProp(data, "walletId")
      a == GetProp(data, "address")
      cached == \E d \in Calls :
                  /\ result[d].kind = "returned"
                  /\ result[d].value.status = "success"
  IN  IF w.threw THEN CatchError(w.err, FallbackCode(o))
      ELSE IF a.threw THEN CatchError(a.err, FallbackCode(o))
      ELSE Returned([status |-> "success", walletId |-> w.val,
                     address |-> IF cached THEN Undefined ELSE a.val])

\* return {status: "success", walletId: data.walletId, address: data.address}
WalletResult(o, data) ==
  LET w == GetProp(data, "walletId")
      a == GetProp(data, "address")
  IN  IF w.threw THEN CatchError(w.err, FallbackCode(o))
      ELSE IF a.threw THEN CatchError(a.err, FallbackCode(o))
      ELSE Returned([status |-> "success", walletId |-> w.val,
                     address |-> a.val])

\* return {status: "success", wallets: data.wallets}
WalletsResult(o, data) ==
  LET w == GetProp(data, "wallets")
  IN  IF w.threw THEN CatchError(w.err, FallbackCode(o))
      ELSE Returned([status |-> "success", wallets |-> w.val])

\* everything a wrapper does once response.json() has settled with `parsed`
AfterJson(o, status, parsed) ==
  IF ~ResponseOk(status)
  THEN CatchError(ErrorFromBody(status, parsed), FallbackCode(o))
  ELSE IF parsed.threw THEN CatchError(parsed.err, FallbackCode(o))
  ELSE IF o = "list" THEN WalletsResult(o, parsed.val)
  ELSE WalletResult(o, parsed.val)

(* ------------------------------ inputs --------------------------------- *)

LinkedUsers ==
  { Str("email:a@b.com"), Str("id:"), Str("a@b.com"), Str(""), Undefined }

CreateApiKeys == { Str("sk_test"), Str("pk_test"), Str(""), Undefined }

\* arguments of getCrossmintWallet and of listCrossmintWallets
WalletIds == { Str("w1") }

GetApiKeys == { Str("pk_test") }

ListApiKeys == { Str("") }

(* ------------------------------ state ---------------------------------- *)

NoArgs == [none |-> Undefined]
NoAnswer == [kind |-> "none"]

Init ==
  /\ pc = [c \in Calls |-> "idle"]
  /\ op = [c \in Calls |-> "none"]
  /\ args = [c \in Calls |-> NoArgs]
  /\ requests = [c \in Calls |-> <<>>]
  /\ answer = [c \in Calls |-> NoAnswer]
  /\ result = [c \in Calls |-> Pending]

\* calls are numbered in the order in which they are made
CanCall(c) ==
  /\ pc[c] = "idle"
  /\ \A d \in Calls : d < c => pc[d] # "idle"

\* the call finishes with `r` without (further) suspending
Finish(c, r) ==
  /\ pc' = [pc EXCEPT ![c] = "done"]
  /\ result' = [result EXCEPT ![c] = r]

\* the call hands `req` to fetch() and suspends
Fetch(c, req) ==
  /\ pc' = [pc EXCEPT ![c] = "awaitFetch"]
  /\ requests' = [requests EXCEPT ![c] = Append(@, req)]
  /\ UNCHANGED result

\* createCrossmintWallet(agent, linkedUser, apiKey), up to its first await
CallCreate(c, linkedUser, apiKey) ==
  /\ CanCall(c)
  /\ op' = [op EXCEPT ![c] = "create"]
  /\ args' = [args EXCEPT ![c] = [linkedUser |-> linkedUser,
                                  apiKey |-> apiKey]]
  /\ LET v == ValidateCreate(linkedUser, apiKey)
     IN  IF v.threw
         THEN /\ Finish(c, CatchError(v.err, FallbackCode("create")))
              /\ UNCHANGED requests
         ELSE Fetch(c, CreateRequest(linkedUser, apiKey))
  /\ UNCHANGED answer

\* getCrossmintWallet(agent, walletId, apiKey), up to its first await
CallGet(c, walletId, apiKey) ==
  /\ CanCall(c)
  /\ op' = [op EXCEPT ![c] = "get"]
  /\ args' = [args EXCEPT ![c] = [walletId |-> walletId, apiKey |-> apiKey]]
  /\ Fetch(c, GetRequest(walletId, apiKey))
  /\ UNCHANGED answer

\* listCrossmintWallets(agent, apiKey), up to its first await
CallList(c, apiKey) ==
  /\ CanCall(c)
  /\ op' = [op EXCEPT ![c] = "list"]
  /\ args' = [args EXCEPT ![c] = [apiKey |-> apiKey]]
  /\ Fetch(c, ListRequest(apiKey))
  /\ UNCHANGED answer

\* fetch() resolves: the status line and headers have arrived; the wrapper
\* goes on to await response.json()
FetchResolve(c, status) ==
  /\ pc[c] = "awaitFetch"
  /\ pc' = [pc EXCEPT ![c] = "awaitJson"]
  /\ answer' = [answer EXCEPT ![c] = [kind |-> "headers", status |-> status]]
  /\ UNCHANGED <<op, args, requests, result>>

\* variant: a failed fetch is retried
FetchRejectRetry(c, error) ==
  /\ pc[c] = "awaitFetch"
  /\ Len(requests[c]) < 3
  /\ requests' = [requests EXCEPT ![c] = Append(@, @[1])]
  /\ UNCHANGED <<pc, op, args, answer, result>>

\* fetch() rejects: the catch block turns the failure into the result
FetchReject(c, error) ==
  /\ pc[c] = "awaitFetch"
  /\ answer' = [answer EXCEPT ![c] = [kind |-> "failure", error |-> error]]
  /\ Finish(c, CatchError(error, FallbackCode(op[c])))
  /\ UNCHANGED <<op, args, requests>>

\* response.json() settles on the body text: the rest of the wrapper runs
JsonSettle(c, text) ==
  /\ pc[c] = "awaitJson"
  /\ answer' = [answer EXCEPT ![c] =
                  [kind |-> "response", status |-> answer[c].status,
                   text |-> text]]
  /\ Finish(c, AfterJson(op[c], answer[c].status, JSONParse(text)))
  /\ UNCHANGED <<op, args, requests>>

\* response.json() rejects because the body could not be read
JsonReject(c, error) ==
  /\ pc[c] = "awaitJson"
  /\ answer' = [answer EXCEPT ![c] =
                  [kind |-> "bodyFailure", status |-> answer[c].status,
                   error |-> error]]
  /\ Finish(c, CatchError(error, FallbackCode(op[c])))
  /\ UNCHANGED <<op, args, requests>>

Next ==
  \E c \in Calls :
    \/ \E u \in LinkedUsers, k \in CreateApiKeys : CallCreate(c, u, k)
    \/ \E w \in WalletIds, k \in GetApiKeys : CallGet(c, w, k)
    \/ \E k \in ListApiKeys : CallList(c, k)
    \/ \E s \in Statuses : FetchResolve(c, s)
    \/ \E e \in TransportErrors : FetchReject(c, e)
    \/ \E t \in BodyTexts : JsonSettle(c, t)
    \/ \E e \in BodyReadErrors : JsonReject(c, e)

Spec == Init /\ [][Next]_vars

(* ------------------------ vocabulary of the claims --------------------- *)

Done(c) == pc[c] = "done"

ReturnedError(c) ==
  /\ result[c].kind = "returned"
  /\ result[c].value.status = "error"

ReturnedSuccess(c) ==
  /\ result[c].kind = "returned"
  /\ result[c].value.status = "success"

\* the call got a complete response: a status and a body text
GotResponse(c) == Done(c) /\ answer[c].kind = "response"

\* the string begins with one of the two prefixes
HasUserPrefix(u) ==
  /\ u.t = "string"
  /\ StartsWith(u.v, "email:") \/ StartsWith(u.v, "id:")

\* the key is a non-empty string beginning with sk_
HasKeyPrefix(k) ==
  /\ k.t = "string"
  /\ k.v # ""
  /\ StartsWith(k.v, "sk_")

LinkedUserMessage ==
  "linkedUser must start with 'email:' or 'id:' followed by the identifier"

SynthMessage(status) == "HTTP error! status: " \o ToString(status)

DocumentedFallback(o) ==
  CASE o = "create" -> Str("WALLET_CREATION_ERROR")
    [] o = "get" -> Str("WALLET_FETCH_ERROR")
    [] o = "list" -> Str("WALLET_LIST_ERROR")

(* ------------------------------ claims --------------------------------- *)

\* C1: every call that finishes does so by returning a result whose status
\* is "success" or "error"; no call finishes with a rejected promise, and a
\* call that has not finished has no result.
C1_NeverThrows ==
  \A c \in Calls :
    /\ result[c].kind # "rejected"
    /\ Done(c) <=> result[c].kind = "returned"
    /\ Done(c) => result[c].value.status \in {"success", "error"}

\* C1 witness: calls have finished after an unparsable body and after a
\* network failure.
C1_Witness ==
  /\ \E c \in Calls : GotResponse(c) /\ JSONParse(answer[c].text).threw
  /\ \E c \in Calls : Done(c) /\ answer[c].kind = "failure"

\* C2: a createCrossmintWallet call whose linkedUser has neither prefix, or
\* whose apiKey is empty or lacks the sk_ prefix, has issued no request in
\* any state, and has returned an error result.
C2_ValidationGatesNetwork ==
  \A c \in Calls :
    (op[c] = "create"
       /\ (~HasUserPrefix(args[c].linkedUser) \/ ~HasKeyPrefix(args[c].apiKey)))
    => /\ Len(requests[c]) = 0
       /\ Done(c)
       /\ ReturnedError(c)

\* C2 witness: one create call with a bad linkedUser and one with a good
\* linkedUser and a bad apiKey have both returned.
C2_Witness ==
  /\ \E c \in Calls :
       /\ op[c] = "create" /\ Done(c)
       /\ ~HasUserPrefix(args[c].linkedUser)
  /\ \E c \in Calls :
       /\ op[c] = "create" /\ Done(c)
       /\ HasUserPrefix(args[c].linkedUser)
       /\ ~HasKeyPrefix(args[c].apiKey)

\* C3 (as claimed): when getCrossmintWallet receives a non-success status s
\* with a body that cannot be parsed as JSON, the message of the returned
\* error is "HTTP error! status: <s>".
C3_UnparsableBodyGivesHttpMessage ==
  \A c \in Calls :
    (op[c] = "get" /\ GotResponse(c)
       /\ ~ResponseOk(answer[c].status)
       /\ JSONParse(answer[c].text).threw)
    => /\ ReturnedError(c)
       /\ result[c].value.message = SynthMessage(answer[c].status)

\* C4 (as claimed): on a non-success status with a parseable body the result
\* is an error whose message is the body's message field if present, else
\* the synthesized string, and whose code is the operation's fallback.
C4_Original ==
  \A c \in Calls :
    (GotResponse(c) /\ ~ResponseOk(answer[c].status)
       /\ ~JSONParse(answer[c].text).threw)
    => LET body == JSONParse(answer[c].text).val
       IN  /\ ReturnedError(c)
           /\ result[c].value.code = DocumentedFallback(op[c])
           /\ result[c].value.message =
                IF body.t = "object" /\ "message" \in DOMAIN body.v
                THEN ToStr(body.v.message)
                ELSE SynthMessage(answer[c].status)

\* C4 (amended): on a non-success status with a parseable body the result is
\* an error with the operation's fallback code; its message is the body's
\* message field when that field is present and truthy (non-empty), the
\* synthesized string when the field is absent or empty, and the TypeError
\* message of the failed property read when the body is JSON null.
C4_HttpErrorMessage ==
  \A c \in Calls :
    (GotResponse(c) /\ ~ResponseOk(answer[c].status)
       /\ ~JSONParse(answer[c].text).threw)
    => LET body == JSONParse(answer[c].text).val
       IN  /\ ReturnedError(c)
           /\ result[c].value.code = DocumentedFallback(op[c])
           /\ result[c].value.message =
                IF body = Null
                THEN "Cannot read properties of null (reading 'message')"
                ELSE IF /\ body.t = "object"
                        /\ "message" \in DOMAIN body.v
                        /\ Truthy(body.v.message)
                THEN ToStr(body.v.message)
                ELSE SynthMessage(answer[c].status)

\* C4 witness: status 400 with body {message: "bad request"} has given
\* createCrossmintWallet the documented result.
C4_Witness ==
  \E c \in Calls :
    /\ op[c] = "create" /\ GotResponse(c)
    /\ answer[c].status = 400 /\ answer[c].text = BodyMessage
    /\ result[c] = Returned([status |-> "error", message |-> "bad request",
                             code |-> Str("WALLET_CREATION_ERROR")])

\* what C5 says a success result looks like for a parsed body
ShapedAsClaimed(c, body) ==
  LET field(name) ==
        IF body.t = "object" /\ name \in DOMAIN body.v
        THEN body.v[name] ELSE Undefined
  IN  /\ ReturnedSuccess(c)
      /\ IF op[c] = "list"
         THEN result[c].value = [status |-> "success",
                                 wallets |-> field("wallets")]
         ELSE result[c].value = [status |-> "success",
                                 walletId |-> field("walletId"),
                                 address |-> field("address")]

\* C5 (as claimed): on a success status with a parseable body every
\* operation returns "success" carrying the body's fields, absent fields
\* staying absent.
C5_Original ==
  \A c \in Calls :
    (GotResponse(c) /\ ResponseOk(answer[c].status)
       /\ ~JSONParse(answer[c].text).threw)
    => ShapedAsClaimed(c, JSONParse(answer[c].text).val)

\* C5 (amended): as claimed for every parseable body except JSON null; a
\* null body yields an error result with the operation's fallback code.
C5_SuccessShaping ==
  \A c \in Calls :
    (GotResponse(c) /\ ResponseOk(answer[c].status)
       /\ ~JSONParse(answer[c].text).threw)
    => LET body == JSONParse(answer[c].text).val
       IN  IF body = Null
           THEN /\ ReturnedError(c)
                /\ result[c].value.code = DocumentedFallback(op[c])
           ELSE ShapedAsClaimed(c, body)

\* C5 witness: a wallet body has been shaped for create or get, and a body
\* without the wallet fields has been returned as a success.
C5_Witness ==
  /\ \E c \in Calls :
       /\ op[c] \in {"create", "get"} /\ GotResponse(c)
       /\ answer[c].text = BodyWallet
       /\ result[c] = Returned([status |-> "success", walletId |-> Str("w1"),
                                address |-> Str("addr1")])
  /\ \E c \in Calls :
       /\ GotResponse(c) /\ answer[c].text = BodyMessage
       /\ ReturnedSuccess(c)

\* the message C6 is about, for a create call with string arguments
ValidationMessageIs(c, keyMessage) ==
  (op[c] = "create" /\ Done(c) /\ args[c].linkedUser.t = "string")
  => /\ ~HasUserPrefix(args[c].linkedUser)
          => /\ ReturnedError(c)
             /\ result[c].value.message = LinkedUserMessage
     /\ (HasUserPrefix(args[c].linkedUser) /\ ~HasKeyPrefix(args[c].apiKey))
          => /\ ReturnedError(c)
             /\ result[c].value.message = keyMessage

\* C6 (as claimed): a bad linkedUser is reported with the linkedUser
\* message, also when the apiKey is bad too; a good linkedUser with a bad
\* apiKey is reported with "Invalid API key format".
C6_Original ==
  \A c \in Calls : ValidationMessageIs(c, "Invalid API key format")

\* C6 (amended): the same, the apiKey message being
\* "Invalid Crossmint API key format".
C6_ValidationMessages ==
  \A c \in Calls : ValidationMessageIs(c, "Invalid Crossmint API key format")

\* C6 witness: a call with both arguments bad and a call with only the
\* apiKey bad have returned.
C6_Witness ==
  /\ \E c \in Calls :
       /\ op[c] = "create" /\ Done(c)
       /\ args[c].linkedUser.t = "string"
       /\ ~HasUserPrefix(args[c].linkedUser)
       /\ ~HasKeyPrefix(args[c].apiKey)
  /\ \E c \in Calls :
       /\ op[c] = "create" /\ Done(c)
       /\ HasUserPrefix(args[c].linkedUser)
       /\ ~HasKeyPrefix(args[c].apiKey)

C8_ExactlyOneRequest ==
  \A c \in Calls :
    /\ Len(requests[c]) <= 1
    /\ pc[c] \in {"awaitFetch", "awaitJson"} => Len(requests[c]) = 1
    /\ (Done(c) /\ op[c] \in {"get", "list"}) => Len(requests[c]) = 1
    /\ (Done(c) /\ op[c] = "create"
          /\ HasUserPrefix(args[c].linkedUser)
          /\ HasKeyPrefix(args[c].apiKey)) => Len(requests[c]) = 1

\* C8 witness: a get or list call has finished after a network failure and
\* another call after a non-success status, each with one request.
C8_Witness ==
  /\ \E c \in Calls :
       /\ op[c] \in {"get", "list"} /\ Done(c)
       /\ answer[c].kind = "failure"
       /\ Len(requests[c]) = 1
  /\ \E c \in Calls :
       /\ GotResponse(c) /\ ~ResponseOk(answer[c].status)
       /\ Len(requests[c]) = 1

\* the code the failure behind a finished call carries, if any
CarriedCode(c) ==
  IF answer[c].kind \in {"failure", "bodyFailure"}
  THEN answer[c].error.code
  ELSE Undefined

\* C9: the code of every error result is the code carried by the underlying
\* failure when it carries one, and the operation's fallback otherwise.
C9_ErrorCodeDefaulting ==
  \A c \in Calls :
    (Done(c) /\ ReturnedError(c))
    => result[c].value.code =
         IF CarriedCode(c) # Undefined
         THEN CarriedCode(c)
         ELSE DocumentedFallback(op[c])

\* C9 witness: a transport failure with its own code and a failure without
\* one have both been turned into error results.
C9_Witness ==
  /\ \E c \in Calls :
       /\ Done(c) /\ CarriedCode(c) = Str("ECONNREFUSED")
       /\ result[c].value.code = Str("ECONNREFUSED")
  /\ \E c \in Calls :
       /\ Done(c) /\ ReturnedError(c) /\ CarriedCode(c) = Undefined

\* C10 (as claimed): a createCrossmintWallet call whose linkedUser is a bare
\* prefix is rejected by validation and issues no request.
C10_BarePrefixRejected ==
  \A c \in Calls :
    (op[c] = "create" /\ args[c].linkedUser \in {Str("email:"), Str("id:")})
    => /\ Len(requests[c]) = 0
       /\ Done(c) => ReturnedError(c)

====
